---- MODULE Spec2Model ----
(***************************************************************************)
(* Model of the device-issue classifier of LogAnalysis:                    *)
(*   main.py            the rule-based engine (_prep_text,                 *)
(*                      _score_categories, classify_issue)                 *)
(*   llm_classifier.py  the validation of the external model's JSON reply  *)
(*                      (call_openai).                                     *)
(* A text is the sequence of its characters (Chars of a TLA+ string).       *)
(***************************************************************************)
EXTENDS Integers, Sequences, FiniteSets, TLC

(***************************************************************************)
(* main.py: categories and tables                                          *)
(***************************************************************************)
CRASH == "Crash Issue"
CAMERA == "Camera Issue"
BLUETOOTH == "Bluetooth Issue"
NFC == "NFC Issue"
NOTIF == "Notification Issue"
UI == "UI Issue"
\* OTHER (a reserved word of TLA+)
OTHER_LABEL == "Other"

ALL_CATEGORIES == << CRASH, CAMERA, BLUETOOTH, NFC, NOTIF, UI >>

KEYWORDS ==
  CRASH :> <<
       "crash", "crashes", "crashed", "crashing", "stopped working", "keeps stopping",
       "has stopped", "stops working", "force close", "force-close", "force stop",
       "force-stop", "stopped responding", "unfortunately", "app stopped",
       "app has stopped", "anr", "application not responding", "fatal exception",
       "fatal signal", "sigsegv", "sigabrt", "java.lang.", "nullpointerexception" >>
  @@ CAMERA :> <<
       "camera", "cam", "selfie", "rear camera", "front camera", "photo", "video",
       "record", "capture", "shutter", "focus", "hdr", "portrait", "night mode",
       "pro mode", "qr", "barcode", "scan", "camera search" >>
  @@ BLUETOOTH :> <<
       "bluetooth", "bt", "pair", "pairing", "paired", "connect", "connected",
       "disconnect", "disconnected", "a2dp", "hfp", "ble", "earbuds", "buds",
       "headset" >>
  @@ NFC :> <<
       "nfc", "tap to pay", "contactless", "samsung pay", "google pay",
       "secure element", "se", "host card emulation", "hce" >>
  @@ NOTIF :> <<
       "notification", "notifications", "push", "badge", "badges", "heads-up",
       "banner", "silent notification", "no notification", "do not disturb", "dnd",
       "blocked notifications" >>
  @@ UI :> <<
       "ui", "one ui", "screen", "display", "layout", "button", "icon", "gesture",
       "freeze", "frozen", "stuck", "lag", "stutter", "animation", "render", "touch",
       "tap", "scroll", "scrolling", "ui bug", "ui issue" >>

(***************************************************************************)
(* Characters: str.lower, str.isalnum, the regex class \w and the code     *)
(* points that order two strings.                                          *)
(***************************************************************************)
LowerOf ==
  "A" :> "a" @@ "B" :> "b" @@ "C" :> "c" @@ "D" :> "d" @@ "E" :> "e" @@ "F" :> "f" @@
  "G" :> "g" @@ "H" :> "h" @@ "I" :> "i" @@ "J" :> "j" @@ "K" :> "k" @@ "L" :> "l" @@
  "M" :> "m" @@ "N" :> "n" @@ "O" :> "o" @@ "P" :> "p" @@ "Q" :> "q" @@ "R" :> "r" @@
  "S" :> "s" @@ "T" :> "t" @@ "U" :> "u" @@ "V" :> "v" @@ "W" :> "w" @@ "X" :> "x" @@
  "Y" :> "y" @@ "Z" :> "z"

ord ==
  " " :> 32 @@ "A" :> 65 @@ "B" :> 66 @@ "C" :> 67 @@ "D" :> 68 @@ "E" :> 69 @@
  "F" :> 70 @@ "G" :> 71 @@ "H" :> 72 @@ "I" :> 73 @@ "J" :> 74 @@ "K" :> 75 @@
  "L" :> 76 @@ "M" :> 77 @@ "N" :> 78 @@ "O" :> 79 @@ "P" :> 80 @@ "Q" :> 81 @@
  "R" :> 82 @@ "S" :> 83 @@ "T" :> 84 @@ "U" :> 85 @@ "V" :> 86 @@ "W" :> 87 @@
  "X" :> 88 @@ "Y" :> 89 @@ "Z" :> 90 @@ "a" :> 97 @@ "b" :> 98 @@ "c" :> 99 @@
  "d" :> 100 @@ "e" :> 101 @@ "f" :> 102 @@ "g" :> 103 @@ "h" :> 104 @@ "i" :> 105 @@
  "j" :> 106 @@ "k" :> 107 @@ "l" :> 108 @@ "m" :> 109 @@ "n" :> 110 @@ "o" :> 111 @@
  "p" :> 112 @@ "q" :> 113 @@ "r" :> 114 @@ "s" :> 115 @@ "t" :> 116 @@ "u" :> 117 @@
  "v" :> 118 @@ "w" :> 119 @@ "x" :> 120 @@ "y" :> 121 @@ "z" :> 122

(***************************************************************************)
(* State                                                                   *)
(***************************************************************************)
VARIABLES
  keywords,             \* main.py: the module-level dict KEYWORDS
  all_categories,       \* main.py: the module-level list ALL_CATEGORIES
  normalize_patterns,   \* main.py: the module-level list NORMALIZE_PATTERNS
  in_title, in_content, in_top_k,   \* the arguments of one call of classify_issue
  result,               \* the Classification it returned
  in_text, scored,         \* the argument and the result of one call of _score_categories
  data, reply,          \* call_openai: the JSON object of the model, and the outcome
  calls, ncalls,        \* concurrent calls of classify_issue, and how many began
  pc                    \* "ready" before the call under study, "done" after it

modules == << keywords, all_categories, normalize_patterns >>
vars == << keywords, all_categories, normalize_patterns, in_title, in_content,
           in_top_k, result, in_text, scored, data, reply, calls, ncalls, pc >>

Letters == DOMAIN ord \ {" "}
Digits == {"0", "1", "2", "3", "4", "5", "6", "7", "8", "9"}

\* the characters of a str, as a sequence: Chars("ab") = << "a", "b" >>
Chars(s) == [i \in 1..Len(s) |-> SubSeq(s, i, i)]

isalnum(ch) == ch \in Letters \cup Digits

\* the class \w of a str pattern: alphanumerics and the underscore
IsWordChar(ch) == isalnum(ch) \/ ch = "_"

\* str.lower
lower(t) == [i \in 1..Len(t) |-> IF t[i] \in DOMAIN LowerOf THEN LowerOf[t[i]] ELSE t[i]]

(***************************************************************************)
(* Regular expressions of main.py, as the re module evaluates them over a  *)
(* text given as its sequence of characters                                *)
(***************************************************************************)
\* \b at the position before character p (1 <= p <= Len(text) + 1)
WordBoundary(text, p) ==
  LET before == p > 1 /\ IsWordChar(text[p - 1])
      after  == p <= Len(text) /\ IsWordChar(text[p])
  IN  before # after

\* the literal lit (a non-empty sequence of characters) occupies
\* text[i .. i + Len(lit) - 1]
LiteralAt(text, lit, i) ==
  /\ i >= 1
  /\ i + Len(lit) - 1 <= Len(text)
  /\ text[i] = lit[1]
  /\ SubSeq(text, i, i + Len(lit) - 1) = lit

\* a faulty _is_wordy: no trigger gets word boundaries
_is_wordy_Never(s) == FALSE

\* _is_wordy
_is_wordy(s) ==
  Len(s) > 0 /\ isalnum(SubSeq(s, 1, 1)) /\ isalnum(SubSeq(s, Len(s), Len(s)))

\* the pattern _score_categories builds for a trigger w:
\* rf"\b{re.escape(w)}\b" when _is_wordy(w), re.escape(w) otherwise
TriggerPattern(w) == [lit |-> w, bounded |-> _is_wordy(w)]

\* the literal lit matches with its first character at position i, between two
\* \b when bounded
PatternAt(lit, bounded, text, i) ==
  /\ LiteralAt(text, lit, i)
  /\ bounded =>
       /\ WordBoundary(text, i)
       /\ WordBoundary(text, i + Len(lit))

\* the positions of text at which each of its characters occurs
Occurrences(text) ==
  [ch \in { text[i] : i \in 1..Len(text) } |-> { i \in 1..Len(text) : text[i] = ch }]

\* re.search(pattern, text) is not None, with occ = Occurrences(text): a match
\* starts at an occurrence of the first character of the pattern
re_search(pattern, text, occ) ==
  LET first == SubSeq(pattern.lit, 1, 1)
  IN  /\ first \in DOMAIN occ
      /\ LET lit == Chars(pattern.lit)
         IN  \E i \in occ[first] : PatternAt(lit, pattern.bounded, text, i)

(***************************************************************************)
(* NORMALIZE_PATTERNS.  Every pattern is compiled with re.I; _prep_text    *)
(* applies them to text that str.lower has already folded.                 *)
(*   alts: the literals the pattern's alternations spell, in the order the *)
(*         regex engine tries them, between two \b                         *)
(*   head/seps/tail: \b head [seps]+ .* tail \b                            *)
(***************************************************************************)
NORMALIZE_PATTERNS == <<
  \* \b(app|application) (keeps )?(crashing|stopping|closing)\b
  [alts |-> << "app keeps crashing", "app keeps stopping", "app keeps closing",
               "app crashing", "app stopping", "app closing",
               "application keeps crashing", "application keeps stopping",
               "application keeps closing", "application crashing",
               "application stopping", "application closing" >>,
   head |-> "", seps |-> {}, tail |-> "", repl |-> "crash"],
  \* \b(stopped|stops) working\b
  [alts |-> << "stopped working", "stops working" >>,
   head |-> "", seps |-> {}, tail |-> "", repl |-> "stopped working"],
  \* \bunfortunately[, ]+.* has stopped\b
  [alts |-> << >>,
   head |-> "unfortunately", seps |-> {",", " "}, tail |-> " has stopped",
   repl |-> "app has stopped"] >>

\* re.compile and the replacement, over sequences of characters; first is the
\* set of characters a match can start with
Compile(p) ==
  [alts |-> [j \in 1..Len(p.alts) |-> Chars(p.alts[j])],
   head |-> Chars(p.head), seps |-> p.seps, tail |-> Chars(p.tail),
   repl |-> Chars(p.repl),
   first |-> { SubSeq(p.alts[j], 1, 1) : j \in 1..Len(p.alts) }
               \cup { SubSeq(p.head, 1, 1) : j \in 1..Len(p.head) }]

\* the patterns main.py compiles when it is imported
CompiledPatterns ==
  [k \in 1..Len(NORMALIZE_PATTERNS) |-> Compile(NORMALIZE_PATTERNS[k])]

\* the compiled form of the k-th rule of the list normalize_patterns
Compiled(k) ==
  IF k <= Len(NORMALIZE_PATTERNS) /\ normalize_patterns[k] = NORMALIZE_PATTERNS[k]
  THEN CompiledPatterns[k]
  ELSE Compile(normalize_patterns[k])

\* first literal of alts, from index k on, that matches at i between two \b:
\* the index of the last character matched, 0 when none does
RECURSIVE AltsEnd(_, _, _, _)
AltsEnd(alts, text, i, k) ==
  IF k > Len(alts) THEN 0
  ELSE IF PatternAt(alts[k], TRUE, text, i)
       THEN i + Len(alts[k]) - 1
       ELSE AltsEnd(alts, text, i, k + 1)

\* \b head [seps]+ .* tail \b at i: both quantifiers are greedy and "." stops at
\* a newline, so the match runs to the last tail on the line that a \b follows
GreedyEnd(pat, text, i) ==
  LET s == i + Len(pat.head)
      starts == { j \in (s + 1)..(Len(text) - Len(pat.tail) + 1) :
                    /\ LiteralAt(text, pat.tail, j)
                    /\ WordBoundary(text, j + Len(pat.tail))
                    /\ \A m \in (s + 1)..(j - 1) : text[m] # "\n" }
  IN  IF /\ WordBoundary(text, i)
         /\ LiteralAt(text, pat.head, i)
         /\ s <= Len(text)
         /\ text[s] \in pat.seps
         /\ starts # {}
      THEN (CHOOSE j \in starts : \A m \in starts : m <= j) + Len(pat.tail) - 1
      ELSE 0

\* the match of pat that starts at i: index of its last character, 0 when none
MatchEnd(pat, text, i) ==
  IF Len(pat.alts) > 0 THEN AltsEnd(pat.alts, text, i, 1)
  ELSE GreedyEnd(pat, text, i)

\* pat.sub(repl, text), having copied text[1 .. pos - 1]: the leftmost match
\* from pos on is replaced and the scan resumes behind it
RECURSIVE re_sub(_, _, _)
re_sub(pat, text, pos) ==
  LET found == { i \in pos..Len(text) :
                   text[i] \in pat.first /\ MatchEnd(pat, text, i) > 0 }
  IN  IF found = {} THEN SubSeq(text, pos, Len(text))
      ELSE LET i == CHOOSE j \in found : \A m \in found : j <= m
           IN  SubSeq(text, pos, i - 1) \o pat.repl
                 \o re_sub(pat, text, MatchEnd(pat, text, i) + 1)

\* the loop of _prep_text over NORMALIZE_PATTERNS, from rule k on
RECURSIVE ApplyPatterns(_, _)
ApplyPatterns(t, k) ==
  IF k > Len(normalize_patterns) THEN t
  ELSE ApplyPatterns(re_sub(Compiled(k), t, 1), k + 1)

\* title and content are str; the result is the sequence of characters of t
_prep_text(title, content) ==
  ApplyPatterns(lower(Chars(title \o "\n" \o content)), 1)

(***************************************************************************)
(* _score_categories                                                       *)
(***************************************************************************)
\* a faulty weight: no boost for multi-word phrases
Weight_NoBoost(w) == 1

\* score added by a matched trigger: 2 if " " in w else 1
Weight(w) == IF \E i \in 1..Len(w) : SubSeq(w, i, i) = " " THEN 2 ELSE 1

\* the inner loop over words, from the k-th word on
RECURSIVE ScoreWords(_, _, _, _, _)
ScoreWords(words, t, occ, k, acc) ==
  IF k > Len(words) THEN acc
  ELSE LET w == words[k]
       IN  IF re_search(TriggerPattern(w), t, occ)
           THEN ScoreWords(words, t, occ, k + 1,
                           [score |-> acc.score + Weight(w),
                            reasons |-> Append(acc.reasons, w)])
           ELSE ScoreWords(words, t, occ, k + 1, acc)

\* t is a sequence of characters; KEYWORDS has the keys of ALL_CATEGORIES
_score_categories(t) ==
  LET occ == Occurrences(t)
      cats == { all_categories[i] : i \in 1..Len(all_categories) }
      per == [cat \in cats |->
                ScoreWords(keywords[cat], t, occ, 1, [score |-> 0, reasons |-> << >>])]
  IN  [scores  |-> [cat \in cats |-> per[cat].score],
       reasons |-> [cat \in cats |-> per[cat].reasons]]

(***************************************************************************)
(* classify_issue                                                          *)
(***************************************************************************)
Max(a, b) == IF a >= b THEN a ELSE b
Min(a, b) == IF a <= b THEN a ELSE b

\* seq[:n] for n >= 0
Prefix(seq, n) == SubSeq(seq, 1, Min(n, Len(seq)))

\* a < b for two str, by code points
RECURSIVE StrLess(_, _)
StrLess(a, b) ==
  IF Len(b) = 0 THEN FALSE
  ELSE IF Len(a) = 0 THEN TRUE
  ELSE IF Head(a) = Head(b) THEN StrLess(Tail(a), Tail(b))
  ELSE ord[Head(a)] < ord[Head(b)]

\* the sort key lambda c: (scores[c], c), and < on two such tuples
RankKey(scores, c) == << scores[c], c >>
\* (a faulty < that ignores the name: ties would keep declaration order)
KeyLess_ScoreOnly(ka, kb) == ka[1] < kb[1]
KeyLess(ka, kb) == ka[1] < kb[1] \/ (ka[1] = kb[1] /\ StrLess(ka[2], kb[2]))

\* sorted(..., reverse=True) is stable: c goes behind every element whose key
\* is not smaller than its own
RECURSIVE InsertRanked(_, _, _)
InsertRanked(ranked, c, scores) ==
  IF Len(ranked) = 0 THEN << c >>
  ELSE IF KeyLess(RankKey(scores, Head(ranked)), RankKey(scores, c))
       THEN << c >> \o ranked
       ELSE << Head(ranked) >> \o InsertRanked(Tail(ranked), c, scores)

\* sorted(cats, key=lambda c: (scores[c], c), reverse=True)
RECURSIVE SortedReverse(_, _)
SortedReverse(cats, scores) ==
  IF Len(cats) = 0 THEN << >>
  ELSE InsertRanked(SortedReverse(SubSeq(cats, 1, Len(cats) - 1), scores),
                    cats[Len(cats)], scores)

\* a faulty slice: ranked instead of ranked[1:]
RankedTail_WithFirst(ranked) == ranked

\* ranked[1:]
RankedTail(ranked) == Tail(ranked)

\* a faulty loop: stops one secondary too late
RECURSIVE CollectSecondary_OffByOne(_, _, _, _)
CollectSecondary_OffByOne(rest, scores, top_k, secondary) ==
  IF Len(rest) = 0 THEN secondary
  ELSE IF scores[Head(rest)] <= 0 THEN secondary
  ELSE LET next == Append(secondary, Head(rest))
       IN  IF Len(next) > top_k - 1 THEN next
           ELSE CollectSecondary_OffByOne(Tail(rest), scores, top_k, next)

\* a faulty loop: no break at a category of score 0
RECURSIVE CollectSecondary_NoZeroBreak(_, _, _, _)
CollectSecondary_NoZeroBreak(rest, scores, top_k, secondary) ==
  IF Len(rest) = 0 THEN secondary
  ELSE LET next == Append(secondary, Head(rest))
       IN  IF Len(next) >= top_k - 1 THEN next
           ELSE CollectSecondary_NoZeroBreak(Tail(rest), scores, top_k, next)

\* the loop over ranked[1:] that collects the secondaries (entered when top_k > 1)
RECURSIVE CollectSecondary(_, _, _, _)
CollectSecondary(rest, scores, top_k, secondary) ==
  IF Len(rest) = 0 THEN secondary
  ELSE IF scores[Head(rest)] <= 0 THEN secondary
  ELSE LET next == Append(secondary, Head(rest))
       IN  IF Len(next) >= top_k - 1 THEN next
           ELSE CollectSecondary(Tail(rest), scores, top_k, next)

\* a faulty crash branch: the topical categories ranked by score
CrashBranch_ByScore(scores, reasons, top_k) ==
  LET topical == SelectSeq(SortedReverse(<< CAMERA, BLUETOOTH, NFC, NOTIF, UI >>, scores),
                           LAMBDA c : scores[c] > 0)
  IN  [primary |-> CRASH, secondary |-> Prefix(topical, Max(0, top_k - 1)),
       scores |-> scores, reasons |-> reasons]

\* the branch "Crash dominates when present"
CrashBranch(scores, reasons, top_k) ==
  LET topical == SelectSeq(<< CAMERA, BLUETOOTH, NFC, NOTIF, UI >>,
                           LAMBDA c : scores[c] > 0)
  IN  [primary |-> CRASH, secondary |-> Prefix(topical, Max(0, top_k - 1)),
       scores |-> scores, reasons |-> reasons]

\* the branch "Otherwise choose top categories by score"
RankingBranch(scores, reasons, top_k) ==
  LET ranked == SortedReverse(all_categories, scores)
      primary == IF scores[ranked[1]] > 0 THEN ranked[1] ELSE OTHER_LABEL
      secondary == IF top_k > 1
                   THEN CollectSecondary(RankedTail(ranked), scores, top_k, << >>)
                   ELSE << >>
  IN  [primary |-> primary, secondary |-> secondary,
       scores |-> scores, reasons |-> reasons]

\* a faulty selection: Crash ranked like any other category
SelectLabels_NoDominance(scores, reasons, top_k) ==
  RankingBranch(scores, reasons, top_k)

\* classify_issue after the call of _score_categories
SelectLabels(scores, reasons, top_k) ==
  IF scores[CRASH] > 0 THEN CrashBranch(scores, reasons, top_k)
  ELSE RankingBranch(scores, reasons, top_k)

(***************************************************************************)
(* Inputs of the rule-based engine                                         *)
(***************************************************************************)
NumFragments == 12
MaxTopK == 4

AllFragments == <<
  "App crashed", "camera search", "about the abstract", "disconnecting search",
  "xjava.lang.y", "app keeps stopping", "stops working",
  "unfortunately, nfc has stopped", "one ui", "screen", "nfc", "bt push",
  "crash_log A2DP", "UI issue" >>

Fragments == { AllFragments[i] : i \in 1..NumFragments }
Titles == {""} \cup Fragments \cup { a \o " " \o b : a, b \in Fragments }
Contents == {""} \cup Fragments
TopKs == (0 - 1)..MaxTopK

CategorySet == { ALL_CATEGORIES[i] : i \in 1..Len(ALL_CATEGORIES) }

\* the value of result before classify_issue has returned
NoResult ==
  [primary |-> "", secondary |-> << >>,
   scores |-> [c \in CategorySet |-> 0], reasons |-> [c \in CategorySet |-> << >>]]

\* the module-level objects once main.py is imported
Imported ==
  /\ keywords = KEYWORDS
  /\ all_categories = ALL_CATEGORIES
  /\ normalize_patterns = NORMALIZE_PATTERNS

\* the variables a specification does not use
IdleRules == in_title = "" /\ in_content = "" /\ in_top_k = 1 /\ result = << >>
IdleScore == in_text = "" /\ scored = << >>
IdleLLM == data = << >> /\ reply = << >>
IdlePar == calls = << >> /\ ncalls = 0

Init ==
  /\ Imported
  /\ in_title \in Titles
  /\ in_content \in Contents
  /\ in_top_k = 1
  /\ result = NoResult
  /\ pc = "ready"
  /\ IdleScore /\ IdleLLM /\ IdlePar

\* classify_issue(title, content, top_k), for every top_k
Classify ==
  /\ pc = "ready"
  /\ \E sr \in { _score_categories(_prep_text(in_title, in_content)) } :
       \E k \in TopKs :
         /\ in_top_k' = k
         /\ result' = SelectLabels(sr.scores, sr.reasons, k)
  /\ pc' = "done"
  /\ UNCHANGED << modules, in_title, in_content, in_text, scored, data, reply,
                  calls, ncalls >>

Next == Classify

Spec == Init /\ [][Next]_vars

(***************************************************************************)
(* Properties of classify_issue                                            *)
(***************************************************************************)
Done == pc = "done"

Positive(scores) == { c \in CategorySet : scores[c] > 0 }
Elems(seq) == { seq[i] : i \in 1..Len(seq) }

\* C1: the Classification returned never lists its primary label in secondary,
\* and secondary holds no label twice
C1_NoOverlap ==
  Done =>
    /\ \A i \in 1..Len(result.secondary) : result.secondary[i] # result.primary
    /\ \A i, j \in 1..Len(result.secondary) :
         i # j => result.secondary[i] # result.secondary[j]

\* a call of the ranking branch that returned two secondaries
C1_Witness ==
  /\ Done
  /\ result.scores[CRASH] = 0
  /\ Len(result.secondary) >= 2

\* C2: for every integer top_k, 0 and negative ones included,
\* len(secondary) <= max(0, top_k - 1)
C2_SecondaryBound ==
  Done => Len(result.secondary) <= Max(0, in_top_k - 1)

\* a call whose bound cut the secondaries: more categories scored than top_k
\* allows, and exactly top_k - 1 >= 1 secondaries were returned
C2_Witness ==
  /\ Done
  /\ in_top_k >= 2
  /\ Len(result.secondary) = in_top_k - 1
  /\ Cardinality(Positive(result.scores)) > in_top_k

\* a call with a negative top_k in the crash branch, with a topical category
C2_WitnessNegative ==
  /\ Done
  /\ in_top_k < 0
  /\ result.primary = CRASH
  /\ Positive(result.scores) \ {CRASH} # {}

\* a crash trigger matches the lower-cased title or the lower-cased content
CrashAppears ==
  LET t == lower(Chars(in_title))
      c == lower(Chars(in_content))
      ot == Occurrences(t)
      oc == Occurrences(c)
  IN  \E k \in 1..Len(KEYWORDS[CRASH]) :
        \/ re_search(TriggerPattern(KEYWORDS[CRASH][k]), t, ot)
        \/ re_search(TriggerPattern(KEYWORDS[CRASH][k]), c, oc)

\* C3: when a crash trigger occurs in the title or in the content, primary is
\* "Crash Issue" whatever the other scores and top_k are; the rewrites of
\* _prep_text never remove the crash signal
C3_CrashDominance ==
  (Done /\ CrashAppears) => result.primary = CRASH

\* a call whose text _prep_text rewrote, and where another category scored
\* more than Crash
C3_Witness ==
  /\ Done
  /\ CrashAppears
  /\ _prep_text(in_title, in_content) # lower(Chars(in_title \o "\n" \o in_content))
  /\ \E c \in CategorySet : result.scores[c] > result.scores[CRASH]

\* C4: a category of score 0 is neither a secondary nor the primary; primary is
\* "Other" exactly when no category scored, and then secondary is empty
C4_ZeroScore ==
  Done =>
    /\ \A c \in CategorySet :
         result.scores[c] = 0 =>
           c # result.primary /\ c \notin Elems(result.secondary)
    /\ result.primary = OTHER_LABEL <=> Positive(result.scores) = {}
    /\ result.primary = OTHER_LABEL => result.secondary = << >>

\* a call with top_k > 1 on a text no trigger matches
C4_Witness ==
  /\ Done
  /\ in_top_k > 1
  /\ in_title # ""
  /\ result.primary = OTHER_LABEL

\* the position of a category name in alphabetical order
NameRank ==
  BLUETOOTH :> 1 @@ CAMERA :> 2 @@ CRASH :> 3 @@ NFC :> 4 @@ NOTIF :> 5 @@ UI :> 6

\* c comes before d: score descending, then name ascending or name descending
Before(ascending, scores, c, d) ==
  \/ scores[c] > scores[d]
  \/ /\ scores[c] = scores[d]
     /\ IF ascending THEN NameRank[c] < NameRank[d] ELSE NameRank[c] > NameRank[d]

\* the categories in the total order Before(ascending, scores, _, _)
OrderedBy(ascending, scores) ==
  [i \in 1..Cardinality(CategorySet) |->
     CHOOSE c \in CategorySet :
       Cardinality({ d \in CategorySet : Before(ascending, scores, d, c) }) = i - 1]

\* primary and secondary as the ranking branch is said to pick them from order:
\* the first category when it scored (else "Other"), then the following ones
\* that scored, at most top_k - 1 of them
PickedFrom(order, scores, k) ==
  LET following == SelectSeq(Tail(order), LAMBDA c : scores[c] > 0)
  IN  [primary |-> IF scores[order[1]] > 0 THEN order[1] ELSE OTHER_LABEL,
       secondary |-> Prefix(following, Max(0, k - 1))]

RankingAgrees(ascending) ==
  (Done /\ result.scores[CRASH] = 0) =>
    LET picked == PickedFrom(OrderedBy(ascending, result.scores), result.scores, in_top_k)
    IN  /\ result.primary = picked.primary
        /\ result.secondary = picked.secondary

\* C5 as claimed: in the ranking branch the categories are ranked by score
\* descending with the category name ascending as the tie-break
C5_NameAscending == RankingAgrees(TRUE)

\* C5 as the code ranks: score descending, and among equal scores the
\* category name descending (sorted(..., reverse=True) reverses the whole key)
C5_NameDescending == RankingAgrees(FALSE)

\* a call of the ranking branch whose primary and first secondary tie
C5_Witness ==
  /\ Done
  /\ result.scores[CRASH] = 0
  /\ result.primary # OTHER_LABEL
  /\ Len(result.secondary) >= 1
  /\ result.scores[result.primary] = result.scores[result.secondary[1]]

\* the position of a category in the declaration order
DeclIndex(c) == CHOOSE i \in 1..Len(ALL_CATEGORIES) : ALL_CATEGORIES[i] = c

\* C9: in the crash branch, secondary is the first max(0, top_k - 1) of the
\* non-crash categories that scored, in declaration order and not by score
C9_DeclarationOrder ==
  (Done /\ result.scores[CRASH] > 0) =>
    LET topical == Positive(result.scores) \ {CRASH}
        sec == result.secondary
    IN  /\ Elems(sec) \subseteq topical
        /\ Len(sec) = Min(Max(0, in_top_k - 1), Cardinality(topical))
        /\ \A i, j \in 1..Len(sec) : i < j => DeclIndex(sec[i]) < DeclIndex(sec[j])
        /\ \A c \in topical \ Elems(sec) :
             \A i \in 1..Len(sec) : DeclIndex(sec[i]) < DeclIndex(c)

\* a crash call that kept a category declared earlier and dropped one declared
\* later that scored more
C9_Witness ==
  /\ Done
  /\ result.primary = CRASH
  /\ Len(result.secondary) >= 1
  /\ \E c \in CategorySet \ ({CRASH} \cup Elems(result.secondary)) :
       result.scores[c] > result.scores[result.secondary[Len(result.secondary)]]

(***************************************************************************)
(* _score_categories alone, on texts that no _prep_text has folded         *)
(***************************************************************************)
Separators == {" ", "", "_"}
ScoreTexts ==
  {""} \cup Fragments
       \cup { a \o sep \o b : a \in Fragments, sep \in Separators, b \in Fragments }

InitScore ==
  /\ Imported
  /\ in_text \in ScoreTexts
  /\ scored = [scores |-> NoResult.scores, reasons |-> NoResult.reasons]
  /\ pc = "ready"
  /\ IdleRules /\ IdleLLM /\ IdlePar

\* _score_categories(text)
Score ==
  /\ pc = "ready"
  /\ scored' = _score_categories(Chars(in_text))
  /\ pc' = "done"
  /\ UNCHANGED << modules, in_title, in_content, in_top_k, result, in_text, data,
                  reply, calls, ncalls >>

NextScore == Score

SpecScore == InitScore /\ [][NextScore]_vars

\* the phrase has a space that is neither its first nor its last character
HasInternalSpace(w) == \E i \in 2..(Len(w) - 1) : SubSeq(w, i, i) = " "

\* the trigger w matches the text in_text
Matches(w) ==
  LET t == Chars(in_text)
  IN  re_search(TriggerPattern(w), t, Occurrences(t))

\* the number of places of in_text where the trigger w matches
MatchCount(w) ==
  LET t == Chars(in_text)
  IN  Cardinality({ i \in 1..Len(t) : PatternAt(Chars(w), _is_wordy(w), t, i) })

\* C6: the score of a category is the sum, over its distinct triggers that match
\* the text, of 2 for a phrase with an internal space and 1 otherwise, however
\* often a phrase occurs; reasons lists the matched phrases in the order of the
\* table, none twice; the score is positive iff reasons is not empty
C6_WeightedScore ==
  Done =>
    \A cat \in CategorySet :
      LET words == KEYWORDS[cat]
          matched == { k \in 1..Len(words) : Matches(words[k]) }
          multi == { k \in matched : HasInternalSpace(words[k]) }
          reasons == scored.reasons[cat]
      IN  /\ scored.scores[cat] = 2 * Cardinality(multi) + Cardinality(matched \ multi)
          /\ reasons = SelectSeq(words, Matches)
          /\ \A i, j \in 1..Len(reasons) : i # j => reasons[i] # reasons[j]
          /\ scored.scores[cat] > 0 <=> reasons # << >>

\* a text where a one-word trigger and a phrase of the same category match, one
\* of them at two places
C6_Witness ==
  /\ Done
  /\ \E cat \in CategorySet :
       /\ \E w \in Elems(scored.reasons[cat]) : HasInternalSpace(w)
       /\ \E w \in Elems(scored.reasons[cat]) : ~HasInternalSpace(w) /\ MatchCount(w) >= 2

\* the character of s at position i, "" outside s
Neighbour(s, i) == IF i < 1 \/ i > Len(s) THEN "" ELSE SubSeq(s, i, i)

\* w stands in s at position i / as a whole word or phrase
SubstringAt(w, s, i) == SubSeq(s, i, i + Len(w) - 1) = w
WholeWordAt(w, s, i) ==
  /\ SubstringAt(w, s, i)
  /\ ~IsWordChar(Neighbour(s, i - 1))
  /\ ~IsWordChar(Neighbour(s, i + Len(w)))

\* C10: a trigger whose first and last characters are alphanumeric matches only
\* as a whole word or phrase, never inside a longer word; a trigger that starts
\* or ends with another character matches as a raw substring
C10_BoundaryRule ==
  Done =>
    /\ \A cat \in CategorySet :
         \A k \in 1..Len(KEYWORDS[cat]) :
           LET w == KEYWORDS[cat][k]
               alnumEnds == /\ isalnum(SubSeq(w, 1, 1))
                            /\ isalnum(SubSeq(w, Len(w), Len(w)))
           IN  w \in Elems(scored.reasons[cat]) <=>
                 \E i \in 1..(Len(in_text) - Len(w) + 1) :
                   IF alnumEnds THEN WholeWordAt(w, in_text, i)
                   ELSE SubstringAt(w, in_text, i)
    /\ in_text = "about the abstract" => "bt" \notin Elems(scored.reasons[BLUETOOTH])
    /\ in_text = "disconnecting search" =>
         /\ "se" \notin Elems(scored.reasons[NFC])
         /\ "disconnect" \notin Elems(scored.reasons[BLUETOOTH])

\* a text with "bt" inside two words and "java.lang." between two letters:
\* the first is no match, the second is one
C10_Witness ==
  /\ Done
  /\ in_text = "about the abstract xjava.lang.y"
  /\ "bt" \notin Elems(scored.reasons[BLUETOOTH])
  /\ "java.lang." \in Elems(scored.reasons[CRASH])

(***************************************************************************)
(* llm_classifier.py: call_openai                                          *)
(***************************************************************************)
\* the names of ISSUE_TYPES
ISSUE_TYPES ==
  << "App Crash", "App ANR", "Camera Issue", "Bluetooth Issue", "NFC Issue",
     "Notification Issue", "UI Issue", "Audio Issue", "Wi-Fi Issue",
     "Mobile Network Issue", "Battery/Thermal Issue", "Charging/USB Issue",
     "Display/Touch Issue", "Sensor/GPS Issue", "Storage/FS Issue",
     "Media Playback Issue", "System Update/OTA Issue", "Security/Knox Issue",
     "Samsung Pay Issue", "DeX Issue", "Bixby Issue", "Accessibility Issue",
     "Performance Issue", "App Install/Store Issue", "Permissions Issue",
     "Clock/Alarm Issue", "Contacts/Phone Issue", "Messaging Issue", "Email Issue",
     "File Share/Quick Share Issue", "Hotspot/Tethering Issue", "VPN Issue",
     "Enterprise/MDM Issue", "Localization/Language Issue", "Backup/Restore Issue",
     "Keyboard/IME Issue", "Launcher/Home/Widget Issue", "Lockscreen/Biometric Issue",
     "Wallpaper/Themes Issue", "Other" >>

\* the names of SUBTYPES, per label
SUBTYPES ==
  "Audio Issue" :> <<
       "Noise in audio", "Dual audio playing", "Wrong audio path", "Low volume",
       "Volume auto decreased", "Audio delay/latency", "Audio stutter", "No audio" >>
  @@ "Camera Issue" :> <<
       "Focus failure", "Capture failure", "Preview freeze", "Mode crash" >>
  @@ "Bluetooth Issue" :> <<
       "Pairing failure", "Frequent disconnect", "Audio stutter/quality",
       "Mic/Call routing" >>
  @@ "Notification Issue" :> <<
       "Missing notifications", "Delayed notifications", "Badge missing",
       "DND blocking" >>

\* The values json.loads yields: t is the Python type, v the value (for a dict,
\* the sequence of its keys).  Absent stands for a key the object does not have.
JNull == [t |-> "NoneType", v |-> 0]
JBool(b) == [t |-> "bool", v |-> b]
JNum(n) == [t |-> "int", v |-> n]
JStr(str) == [t |-> "str", v |-> str]
JList(items) == [t |-> "list", v |-> items]
JDict(keys) == [t |-> "dict", v |-> keys]
Absent == [t |-> "absent", v |-> 0]

\* d.get(key, default) on the fields of the JSON object
get(field, default) == IF field = Absent THEN default ELSE field

\* bool(x)
Truthy(x) ==
  CASE x.t = "NoneType" -> FALSE
    [] x.t = "bool" -> x.v
    [] x.t = "int" -> x.v # 0
    [] OTHER -> Len(x.v) > 0

\* hash(x) raises TypeError for a list and for a dict
Hashable(x) == x.t \notin {"list", "dict"}

\* iter(x) raises TypeError unless x is a list, a str or a dict
Iterable(x) == x.t \in {"list", "str", "dict"}

\* the values a for loop over x visits
Iterate(x) ==
  CASE x.t = "list" -> x.v
    [] x.t = "str" -> [i \in 1..Len(x.v) |-> JStr(SubSeq(x.v, i, i))]
    [] x.t = "dict" -> [i \in 1..Len(x.v) |-> JStr(x.v[i])]

\* x in labels, for a hashable x and a set of str
IsIn(x, labels) == x.t = "str" /\ x.v \in labels

TypeError == [raised |-> TRUE, exc |-> "TypeError",
              value |-> [primary |-> "", secondary |-> << >>, subtypes |-> << >>]]
RuntimeError == [raised |-> TRUE, exc |-> "RuntimeError",
                 value |-> [primary |-> "", secondary |-> << >>, subtypes |-> << >>]]
Returned(value) == [raised |-> FALSE, exc |-> "", value |-> value]

\* the list a comprehension builds from the items it kept
ListOf(kept) == [i \in 1..Len(kept) |-> kept[i].v]

\* call_openai from "# Validate keys" on
Validate(obj) ==
  LET primary0 == get(obj.primary, JNull)
      secondary == get(obj.secondary, JList(<< >>))
      allowed == { ISSUE_TYPES[i] : i \in 1..Len(ISSUE_TYPES) }
  IN  IF ~Hashable(primary0) THEN TypeError
      ELSE
      LET primary == IF IsIn(primary0, allowed) THEN primary0.v ELSE "Other"
      IN  IF ~Iterable(secondary) THEN TypeError
          ELSE IF \E i \in 1..Len(Iterate(secondary)) : ~Hashable(Iterate(secondary)[i])
          THEN TypeError
          ELSE
          LET sec == ListOf(SelectSeq(Iterate(secondary),
                                         LAMBDA x : IsIn(x, allowed) /\ x.v # primary))
              sub0 == get(obj.subtypes, JList(<< >>))
              raw_sub == IF Truthy(sub0) THEN sub0 ELSE JList(<< >>)
              catalog == IF primary \in DOMAIN SUBTYPES THEN SUBTYPES[primary] ELSE << >>
              allowed_subs == { catalog[i] : i \in 1..Len(catalog) }
          IN  IF ~Iterable(raw_sub) THEN TypeError
              ELSE IF \E i \in 1..Len(Iterate(raw_sub)) : ~Hashable(Iterate(raw_sub)[i])
              THEN TypeError
              ELSE Returned([primary |-> primary, secondary |-> sec,
                             subtypes |-> ListOf(SelectSeq(Iterate(raw_sub),
                                            LAMBDA x : IsIn(x, allowed_subs)))])

\* call_openai: env is [api_key, content, obj], where content tells what the
\* message of the model holds: "object" a JSON object, "wrapped" a JSON object
\* inside other text, "none" nothing, "garbage" text without a JSON object
call_openai(env) ==
  IF ~env.api_key THEN RuntimeError
  ELSE CASE env.content = "object" -> Validate(env.obj)
         [] env.content = "wrapped" -> Validate(env.obj)
         [] env.content = "none" ->
              Validate([primary |-> Absent, secondary |-> Absent, subtypes |-> Absent])
         [] env.content = "garbage" -> RuntimeError

\* the replies of the model
MaxListLen == 2

ListsOf(items) ==
  UNION { [1..n -> items] : n \in 0..MaxListLen }

PrimaryValues ==
  { Absent, JNull, JNum(7), JStr("Camera Issue"), JStr("Audio Issue"), JStr("Other"),
    JStr("Crash Issue"), JList(<< JStr("Camera Issue") >>) }

SecondaryItems ==
  { JStr("Camera Issue"), JStr("Bluetooth Issue"), JStr("Bogus"), JNull, JList(<< >>) }

SecondaryValues ==
  { Absent, JNull, JNum(0), JStr("Camera Issue"), JDict(<< "Camera Issue" >>) }
    \cup { JList(l) : l \in ListsOf(SecondaryItems) }

SubtypeItems ==
  { JStr("Focus failure"), JStr("No audio"), JStr("bogus"), JList(<< >>) }

SubtypeValues ==
  { Absent, JNull, JBool(TRUE), JNum(0), JStr("Focus failure") }
    \cup { JList(l) : l \in ListsOf(SubtypeItems) }

Objects ==
  [primary : PrimaryValues, secondary : SecondaryValues, subtypes : SubtypeValues]

NoObject == [primary |-> Absent, secondary |-> Absent, subtypes |-> Absent]

Environments ==
  [api_key : {TRUE}, content : {"object", "wrapped"}, obj : Objects]
    \cup [api_key : BOOLEAN, content : {"none", "garbage"}, obj : {NoObject}]
    \cup [api_key : {FALSE}, content : {"object"}, obj : {NoObject}]

\* llm_classifier.py does not import main.py
NotImported ==
  /\ keywords = << >>
  /\ all_categories = << >>
  /\ normalize_patterns = << >>

InitLLM ==
  /\ NotImported
  /\ data \in Environments
  /\ reply = Returned(TypeError.value)
  /\ pc = "ready"
  /\ IdleRules /\ IdleScore /\ IdlePar

\* call_openai(messages)
CallOpenAI ==
  /\ pc = "ready"
  /\ reply' = call_openai(data)
  /\ pc' = "done"
  /\ UNCHANGED << modules, in_title, in_content, in_top_k, result, in_text, scored,
                  data, calls, ncalls >>

NextLLM == CallOpenAI

SpecLLM == InitLLM /\ [][NextLLM]_vars

AllowedLabels == { ISSUE_TYPES[i] : i \in 1..Len(ISSUE_TYPES) }
CatalogOf(label) ==
  IF label \in DOMAIN SUBTYPES
  THEN { SUBTYPES[label][i] : i \in 1..Len(SUBTYPES[label]) }
  ELSE {}

\* what call_openai returns is sanitized
Sanitized(value) ==
  /\ value.primary \in AllowedLabels
  /\ \A i \in 1..Len(value.secondary) :
       value.secondary[i] \in AllowedLabels /\ value.secondary[i] # value.primary
  /\ \A i \in 1..Len(value.subtypes) : value.subtypes[i] \in CatalogOf(value.primary)

\* C8: for every JSON object the model returns, call_openai returns without
\* raising; the primary returned is an allowed label ("Other" for a missing or
\* unrecognized one), secondary holds only allowed labels other than primary,
\* subtypes only entries of the catalog of the primary returned
C8_SanitizingBoundary ==
  (Done /\ data.api_key /\ data.content \in {"object", "wrapped"}) =>
    /\ ~reply.raised
    /\ Sanitized(reply.value)
    /\ ~IsIn(get(data.obj.primary, JNull), AllowedLabels) =>
         reply.value.primary = "Other"

\* whenever call_openai returns, what it returns is sanitized
C8_SanitizedWhenReturned ==
  (Done /\ ~reply.raised) =>
    /\ Sanitized(reply.value)
    /\ ~IsIn(get(data.obj.primary, JNull), AllowedLabels) =>
         reply.value.primary = "Other"

\* a reply with an unrecognized primary, secondaries and subtypes to drop
C8_ReturnedWitness ==
  /\ Done
  /\ ~reply.raised
  /\ data.obj.primary = JStr("Crash Issue")
  /\ reply.value.primary = "Other"
  /\ data.obj.secondary.t = "list" /\ Len(data.obj.secondary.v) > Len(reply.value.secondary)

(***************************************************************************)
(* Concurrent and repeated calls of classify_issue.  A call keeps title,   *)
(* content, top_k, text, scores and reasons in its own frame; KEYWORDS,    *)
(* ALL_CATEGORIES and NORMALIZE_PATTERNS are the only objects the calls    *)
(* share.  The interpreter may switch threads between any two statements,  *)
(* so a call is cut at its three statements with an effect: text =         *)
(* _prep_text(..), scores, reasons = _score_categories(text), and the      *)
(* selection that builds the Classification.                                *)
(***************************************************************************)
MaxCalls == 3

Callers == {"t1", "t2"}

ParTitles == {"App crashed", "camera search"}
ParContents == {"", "one ui"}
ParTopKs == {1, 2}

\* str from a sequence of characters
RECURSIVE Str(_)
Str(t) == IF t = << >> THEN "" ELSE Head(t) \o Str(Tail(t))

\* the frame of a caller that is not inside classify_issue
NoFrame ==
  [pc |-> "idle", title |-> "", content |-> "", top_k |-> 1, text |-> "",
   scores |-> << >>, reasons |-> << >>, ret |-> << >>]

InitPar ==
  /\ Imported
  /\ calls = [p \in Callers |-> NoFrame]
  /\ ncalls = 0
  /\ pc = "ready"
  /\ IdleRules /\ IdleScore /\ IdleLLM

\* a caller enters classify_issue(title, content, top_k)
CallBegin(p) ==
  /\ calls[p].pc \in {"idle", "done"}
  /\ ncalls < MaxCalls
  /\ \E t \in ParTitles, c \in ParContents, k \in ParTopKs :
       calls' = [calls EXCEPT ![p] =
                   [NoFrame EXCEPT !.pc = "prep", !.title = t, !.content = c, !.top_k = k]]
  /\ ncalls' = ncalls + 1
  /\ UNCHANGED << modules, in_title, in_content, in_top_k, result, in_text, scored,
                  data, reply, pc >>

\* text = _prep_text(title, content)
CallPrep(p) ==
  /\ calls[p].pc = "prep"
  /\ calls' = [calls EXCEPT ![p].text = Str(_prep_text(calls[p].title, calls[p].content)),
                            ![p].pc = "score"]
  /\ UNCHANGED << modules, in_title, in_content, in_top_k, result, in_text, scored,
                  data, reply, ncalls, pc >>

\* a faulty scorer: it takes the trigger phrases it matched out of KEYWORDS
CallScore_Consuming(p) ==
  /\ calls[p].pc = "score"
  /\ \E sr \in { _score_categories(Chars(calls[p].text)) } :
       /\ calls' = [calls EXCEPT ![p].scores = sr.scores, ![p].reasons = sr.reasons,
                                 ![p].pc = "select"]
       /\ keywords' = [c \in DOMAIN keywords |->
                         SelectSeq(keywords[c], LAMBDA w : w \notin Elems(sr.reasons[c]))]
  /\ UNCHANGED << all_categories, normalize_patterns, in_title, in_content, in_top_k,
                  result, in_text, scored, data, reply, ncalls, pc >>

\* scores, reasons = _score_categories(text)
CallScore(p) ==
  /\ calls[p].pc = "score"
  /\ \E sr \in { _score_categories(Chars(calls[p].text)) } :
       calls' = [calls EXCEPT ![p].scores = sr.scores, ![p].reasons = sr.reasons,
                              ![p].pc = "select"]
  /\ keywords' = keywords
  /\ UNCHANGED << all_categories, normalize_patterns, in_title, in_content, in_top_k,
                  result, in_text, scored, data, reply, ncalls, pc >>

\* the rest of classify_issue: the labels are selected and the Classification
\* is returned
CallSelect(p) ==
  /\ calls[p].pc = "select"
  /\ calls' = [calls EXCEPT
                 ![p].ret = SelectLabels(calls[p].scores, calls[p].reasons, calls[p].top_k),
                 ![p].pc = "done"]
  /\ UNCHANGED << modules, in_title, in_content, in_top_k, result, in_text, scored,
                  data, reply, ncalls, pc >>

NextPar ==
  \E p \in Callers :
    \/ CallBegin(p)
    \/ CallPrep(p)
    \/ CallScore(p)
    \/ CallSelect(p)

SpecPar == InitPar /\ [][NextPar]_vars

SameArguments(p, q) ==
  /\ calls[p].title = calls[q].title
  /\ calls[p].content = calls[q].content
  /\ calls[p].top_k = calls[q].top_k

\* C7: classify_issue is deterministic and independent of other calls:
\* whatever calls ran before or run at the same time, the shared tables stay
\* as imported, and two calls with the same (title, content, top_k) return
\* the same Classification
C7_Deterministic ==
  /\ Imported
  /\ \A p, q \in Callers :
       (calls[p].pc = "done" /\ calls[q].pc = "done" /\ SameArguments(p, q))
         => calls[p].ret = calls[q].ret

\* two callers have returned from calls with the same arguments that matched
\* trigger phrases, after an earlier call with other arguments
C7_Witness ==
  /\ calls["t1"].pc = "done" /\ calls["t2"].pc = "done"
  /\ SameArguments("t1", "t2")
  /\ calls["t1"].title = "camera search" /\ calls["t1"].content = "one ui"
  /\ calls["t1"].top_k = 2
  /\ calls["t1"].ret.primary = "UI Issue"
  /\ calls["t1"].ret.secondary = << "Camera Issue" >>
  /\ ncalls = MaxCalls

====
